---- MODULE Spec2Model ----
(***************************************************************************)
(* A model of the autoevaluator package: the sentence decomposer           *)
(* (simplify.py), the two evaluation strategies (eval.py: direct           *)
(* TP/FP/FN labelling; eval_v2.py: question generation plus answerability  *)
(* check), the metric aggregation they share, and the client factory       *)
(* (client.py).  The LLM backend is the environment: every response that   *)
(* conforms to the pydantic response_model of the call is possible.        *)
(***************************************************************************)
EXTENDS Integers, Sequences, FiniteSets, TLC

(***************************************************************************)
(* Bounds of the model.                                                    *)
(***************************************************************************)
\* longest list a backend response holds (sentences, QA pairs, labels)
MaxSent == 2
\* largest list size the metric arithmetic is explored with
MaxCount == 4
\* most calls of get_instructor_client in one behaviour
MaxFactoryCalls == 2
MaxMsgs == 2
MaxCreates == 2
MaxAwaits == 2

Sentences == {"a", "b"}
Questions == {"q1", "q2"}
\* input texts: the empty string and a non-empty one
Texts == {"", "t"}
\* eval.py:61 and eval_v2.py:68,94,19,49: the default model_name
DefaultModel == "gpt-4o-mini"
ModelNames == {DefaultModel, "custom-model"}
Strategies == {"direct", "qa"}

SeqUpTo(S, n) == UNION {[1..k -> S] : k \in 0..n}

(***************************************************************************)
(* Exact arithmetic for the metrics: a value is a reduced fraction         *)
(* <<numerator, denominator>>.                                             *)
(***************************************************************************)
RECURSIVE GCD(_, _)
GCD(a, b) == IF b = 0 THEN a ELSE GCD(b, a % b)

\* the fraction n/d in lowest terms (n and d are evaluated once each)
Frac(n, d) ==
    LET Reduced(a, b) ==
            LET g == GCD(a, b) IN IF g = 0 THEN <<0, 1>> ELSE <<a \div g, b \div g>>
    IN CHOOSE f \in {Reduced(a, b) : a \in {n}, b \in {d}} : TRUE
Zero == <<0, 1>>
FracAdd(x, y) == Frac(x[1] * y[2] + y[1] * x[2], x[2] * y[2])
FracMul(x, y) == Frac(x[1] * y[1], x[2] * y[2])
\* x / y for y > 0
FracDiv(x, y) == Frac(x[1] * y[2], x[2] * y[1])
FracPos(x) == x[1] > 0

\* eval.py:51 and eval_v2.py:145: recall = tp / (tp + fn) if tp + fn > 0 else 0
RecallOverFalseNegatives(tp, fp, fn) == IF fn > 0 THEN Frac(tp, fn) ELSE Zero
Recall(tp, fp, fn) == IF tp + fn > 0 THEN Frac(tp, tp + fn) ELSE Zero

\* eval.py:54 and eval_v2.py:148: precision = tp / (tp + fp) if tp + fp > 0 else 0
PrecisionOverRecallDenominator(tp, fp, fn) ==
    IF tp + fn > 0 THEN Frac(tp, tp + fn) ELSE Zero
Precision(tp, fp, fn) == IF tp + fp > 0 THEN Frac(tp, tp + fp) ELSE Zero

\* eval.py:57 and eval_v2.py:151
F1ScoreArithmeticMean(precision, recall) ==
    FracDiv(FracAdd(precision, recall), Frac(2, 1))
F1Score(precision, recall) ==
    IF FracPos(FracAdd(precision, recall))
    THEN FracDiv(FracMul(FracMul(Frac(2, 1), precision), recall),
                 FracAdd(precision, recall))
    ELSE Zero

\* the three metric entries added to the result dict
Metrics(tp, fp, fn) ==
    LET recall == Recall(tp, fp, fn)
        precision == Precision(tp, fp, fn)
    IN [recall |-> recall, precision |-> precision,
        f1_score |-> F1Score(precision, recall)]

(***************************************************************************)
(* Backend responses: every value of the call's response_model.            *)
(***************************************************************************)
\* simplify.py:6-9: TextSimplify.simplified_sentences: List[str]
TextSimplifyBodies == SeqUpTo(Sentences, MaxSent)
\* eval_v2.py:6-17: QuestionAnswerList.QA_list: List[QuestionAnswer{ans, q}]
QuestionAnswerListBodies == SeqUpTo([ans : Sentences, q : Questions], MaxSent)
\* eval_v2.py:37-46: QuestionList.Q_list: List[QuestionLabel{q, label}]
QuestionListBodies == SeqUpTo([q : Questions, label : BOOLEAN], MaxSent)
\* eval.py:6-9: AutoEval{TP, FP, FN}, each List[str]
AutoEvalBodies ==
    [TP : SeqUpTo(Sentences, MaxSent), FP : SeqUpTo(Sentences, MaxSent),
     FN : SeqUpTo(Sentences, MaxSent)]

(***************************************************************************)
(* One call of evaluate: its arguments, its position, its locals.  The     *)
(* fields cands, labels and calls are history: the number of sentences     *)
(* each decomposition returned (kept only where counting is set), the      *)
(* labels each classification pass attached, and the backend calls issued  *)
(* so far.                                                                 *)
(***************************************************************************)
NoResult == [none |-> TRUE]

NewCall(id, strategy, claim, ground_truth, model_name) ==
    [id |-> id, strategy |-> strategy, claim |-> claim,
     ground_truth |-> ground_truth, model_name |-> model_name,
     pc |-> "text_simplifier", dir |-> "fwd",
     simplified_claim |-> <<>>, simplified_ground_truth |-> <<>>,
     q_gen |-> <<>>, claim_results |-> <<>>, gt_results |-> <<>>,
     counting |-> FALSE, cands |-> [fwd |-> 0, bwd |-> 0],
     texts |-> [fwd |-> <<>>, bwd |-> <<>>], stages |-> <<>>,
     labels |-> [fwd |-> <<>>, bwd |-> <<>>],
     calls |-> <<>>, result |-> NoResult, error |-> ""]

\* a call that was never made
Idle == [NewCall(0, "qa", "", "", DefaultModel) EXCEPT !.pc = "idle"]

\* the text being decomposed: eval_v2.evaluate calls get_classification(claim,
\* ground_truth) and then get_classification(ground_truth, claim); eval.evaluate
\* simplifies the claim and then the ground truth
CurText(st) == IF st.dir = "fwd" THEN st.claim ELSE st.ground_truth
\* the text the questions are checked against
RefText(st) == IF st.dir = "fwd" THEN st.ground_truth ELSE st.claim

\* The model each backend request carries.  eval.evaluate hands model_name on;
\* eval_v2.evaluate calls get_classification without it, and get_classification
\* calls question_generator and question_checker without it.
CalledModel(st) == IF st.strategy = "direct" THEN st.model_name ELSE DefaultModel

\* simplify.py:22-49: the fast path for "", else what the backend returned
TextSimplifierNoFastPath(text, body) == [sentences |-> body, called |-> TRUE]
TextSimplifier(text, body) ==
    IF text = ""
    THEN [sentences |-> <<>>, called |-> FALSE]
    ELSE [sentences |-> body, called |-> TRUE]

\* eval_v2.py:76: question_list = [q['q'] for q in q_gen['QA_list']]
QuestionListOf(q_gen) == [i \in 1..Len(q_gen) |-> q_gen[i].q]

\* the request a pending backend call sends
RequestWithNonce(st) == [op |-> st.pc, model |-> CalledModel(st), nonce |-> st.id]
Request(st) ==
    [op |-> st.pc, model |-> CalledModel(st),
     payload |->
        CASE st.pc = "text_simplifier" -> <<CurText(st)>>
          [] st.pc = "question_generator" -> <<st.simplified_claim>>
          [] st.pc = "question_checker" -> <<QuestionListOf(st.q_gen), RefText(st)>>
          [] st.pc = "LLM_autoeval" ->
                <<st.simplified_claim, st.simplified_ground_truth>>
          [] OTHER -> <<>>]

\* what a backend call may raise: the decoding layer gave up, or the vendor
\* call failed
BackendErrors == {"SchemaDecodingFailed", "BackendInvocationFailed"}

\* the stack unwinds: an exception leaves evaluate, its locals are gone
Unwind(st, err) ==
    [st EXCEPT !.pc = "raised", !.error = err, !.simplified_claim = <<>>,
               !.simplified_ground_truth = <<>>, !.q_gen = <<>>,
               !.claim_results = <<>>, !.gt_results = <<>>]

LogCall(st) == Append(st.calls, [op |-> st.pc, model |-> CalledModel(st)])
\* history: the stage that has just returned, and for which direction
Ran(st) == Append(st.stages, [op |-> st.pc, dir |-> st.dir])

\* eval.py:76-77 and eval_v2.py:70: text_simplifier returns
AfterTextSimplifier(st, body) ==
    LET r == TextSimplifier(CurText(st), body)
        logged == IF r.called THEN LogCall(st) ELSE st.calls
        counted == IF st.counting
                   THEN [st.cands EXCEPT ![st.dir] = Len(r.sentences)]
                   ELSE st.cands
        heard == IF st.counting
                 THEN [st.texts EXCEPT ![st.dir] = r.sentences]
                 ELSE st.texts
    IN IF st.strategy = "qa"
       THEN [st EXCEPT !.simplified_claim = r.sentences, !.cands = counted,
                       !.texts = heard, !.stages = Ran(st), !.calls = logged, !.pc = "question_generator"]
       ELSE IF st.dir = "fwd"
       THEN [st EXCEPT !.simplified_claim = r.sentences, !.cands = counted,
                       !.texts = heard, !.stages = Ran(st), !.calls = logged, !.dir = "bwd"]
       ELSE [st EXCEPT !.simplified_ground_truth = r.sentences, !.cands = counted,
                       !.texts = heard, !.stages = Ran(st), !.calls = logged, !.pc = "LLM_autoeval"]

\* eval_v2.py:72-76: question_generator returns; simplified_claim is not read
\* again
AfterQuestionGenerator(st, body) ==
    [st EXCEPT !.q_gen = body, !.simplified_claim = <<>>, !.calls = LogCall(st),
               !.stages = Ran(st), !.pc = "question_checker"]

\* eval_v2.py:82-85: does some returned entry carry exactly this question
HasMatch(q, checks) == \E j \in 1..Len(checks) : checks[j].q = q
\* the loop assigns on every match, so the last matching entry decides
FirstLabel(q, checks) ==
    LET first == CHOOSE j \in 1..Len(checks) :
                    /\ checks[j].q = q
                    /\ \A k \in 1..(j - 1) : checks[k].q # q
    IN checks[first].label
LastLabel(q, checks) ==
    LET last == CHOOSE j \in 1..Len(checks) :
                    /\ checks[j].q = q
                    /\ \A k \in (j + 1)..Len(checks) : checks[k].q # q
    IN checks[last].label

\* eval_v2.py:87-90: results.append({qa['ans']: qa['label']}) needs the key
AllLabelled(q_gen, checks) == \A i \in 1..Len(q_gen) : HasMatch(q_gen[i].q, checks)
Reconcile(q_gen, checks) ==
    [i \in 1..Len(q_gen) |->
        [ans |-> q_gen[i].ans, label |-> LastLabel(q_gen[i].q, checks)]]

\* eval_v2.py:99-104: True becomes 'TP', anything else 'FP'
RelabelClaim(results) ==
    [i \in 1..Len(results) |->
        [key |-> results[i].ans,
         value |-> IF results[i].label = TRUE THEN "TP" ELSE "FP"]]

\* eval_v2.py:109-114: True becomes '_TP', anything else 'FN'
RelabelGroundTruthCounted(results) ==
    [i \in 1..Len(results) |->
        [key |-> results[i].ans,
         value |-> IF results[i].label = TRUE THEN "TP" ELSE "FN"]]
RelabelGroundTruth(results) ==
    [i \in 1..Len(results) |->
        [key |-> results[i].ans,
         value |-> IF results[i].label = TRUE THEN "_TP" ELSE "FN"]]

\* eval_v2.py:79-92 and 96-114: question_checker returns, the labels are
\* attached, get_classification returns and evaluate relabels its result
AfterQuestionCheckerSinglePass(st, body) ==
    IF ~AllLabelled(st.q_gen, body)
    THEN [Unwind(st, "KeyError") EXCEPT !.calls = LogCall(st)]
    ELSE [st EXCEPT !.claim_results = RelabelClaim(Reconcile(st.q_gen, body)),
                    !.calls = LogCall(st), !.stages = Ran(st),
                    !.simplified_claim = <<>>, !.q_gen = <<>>, !.pc = "merge"]
AfterQuestionCheckerRetrying(st, body) ==
    IF ~AllLabelled(st.q_gen, body)
    THEN IF Len(st.calls) < 8
         THEN [st EXCEPT !.calls = LogCall(st)]
         ELSE [Unwind(st, "KeyError") EXCEPT !.calls = LogCall(st)]
    ELSE LET results == Reconcile(st.q_gen, body)
         IN IF st.dir = "fwd"
            THEN [st EXCEPT !.claim_results = RelabelClaim(results),
                            !.calls = LogCall(st), !.stages = Ran(st),
                            !.simplified_claim = <<>>, !.q_gen = <<>>,
                            !.dir = "bwd", !.pc = "text_simplifier"]
            ELSE [st EXCEPT !.gt_results = RelabelGroundTruth(results),
                            !.calls = LogCall(st), !.stages = Ran(st),
                            !.simplified_claim = <<>>, !.q_gen = <<>>,
                            !.pc = "merge"]
AfterQuestionChecker(st, body) ==
    IF ~AllLabelled(st.q_gen, body)
    THEN [Unwind(st, "KeyError") EXCEPT !.calls = LogCall(st)]
    ELSE LET results == Reconcile(st.q_gen, body)
             seen == [st.labels EXCEPT ![st.dir] = results]
         IN IF st.dir = "fwd"
            THEN [st EXCEPT !.claim_results = RelabelClaim(results),
                            !.labels = seen, !.calls = LogCall(st),
                            !.stages = Ran(st),
                            !.simplified_claim = <<>>, !.q_gen = <<>>,
                            !.dir = "bwd", !.pc = "text_simplifier"]
            ELSE [st EXCEPT !.gt_results = RelabelGroundTruth(results),
                            !.labels = seen, !.calls = LogCall(st),
                            !.stages = Ran(st),
                            !.simplified_claim = <<>>, !.q_gen = <<>>,
                            !.pc = "merge"]

\* eval_v2.py:124-132: the keys carrying one value, in list order
KeysWith(combined, v) ==
    LET Carries(entry) == entry.value = v
        kept == SelectSeq(combined, Carries)
    IN [i \in 1..Len(kept) |-> kept[i].key]

\* eval_v2.py:116-138: claim_results.extend(gt_results), then the three lists
Merge(claim_results, gt_results) ==
    LET combined == claim_results \o gt_results
    IN [TP |-> KeysWith(combined, "TP"), FP |-> KeysWith(combined, "FP"),
        FN |-> KeysWith(combined, "FN")]

\* eval.py:46-59 and eval_v2.py:140-153: the metrics join the three lists
ResultDictWithHiddenTP(lists) ==
    LET m == Metrics(Len(lists.TP), Len(lists.FP), Len(lists.FN))
    IN [TP |-> lists.TP, FP |-> lists.FP, FN |-> lists.FN, _TP |-> <<>>,
        recall |-> m.recall, precision |-> m.precision, f1_score |-> m.f1_score]
ResultDict(lists) ==
    LET m == Metrics(Len(lists.TP), Len(lists.FP), Len(lists.FN))
    IN [TP |-> lists.TP, FP |-> lists.FP, FN |-> lists.FN,
        recall |-> m.recall, precision |-> m.precision, f1_score |-> m.f1_score]

\* eval_v2.py:116-153: evaluate merges, aggregates and returns
AfterMerge(st) ==
    [st EXCEPT !.result = ResultDict(Merge(st.claim_results, st.gt_results)),
               !.claim_results = <<>>, !.gt_results = <<>>,
               !.stages = Ran(st), !.pc = "done"]

\* eval.py:37-59 and 84-86: LLM_autoeval's call returns, evaluate returns
AfterAutoEval(st, body) ==
    [st EXCEPT !.result = ResultDict(body), !.calls = LogCall(st),
               !.stages = Ran(st),
               !.simplified_claim = <<>>, !.simplified_ground_truth = <<>>,
               !.pc = "done"]

\* is a backend call the next thing this call of evaluate does
Pending(st) ==
    \/ st.pc \in {"question_generator", "question_checker", "LLM_autoeval"}
    \/ st.pc = "text_simplifier" /\ CurText(st) # ""

\* what the pending call may return
Bodies(st) ==
    CASE st.pc = "text_simplifier" -> TextSimplifyBodies
      [] st.pc = "question_generator" -> QuestionAnswerListBodies
      [] st.pc = "question_checker" -> QuestionListBodies
      [] st.pc = "LLM_autoeval" -> AutoEvalBodies
      [] OTHER -> {<<>>}

\* the next step of a call of evaluate, given what the backend returned
Step(st, body) ==
    CASE st.pc = "text_simplifier" -> AfterTextSimplifier(st, body)
      [] st.pc = "question_generator" -> AfterQuestionGenerator(st, body)
      [] st.pc = "question_checker" -> AfterQuestionChecker(st, body)
      [] st.pc = "LLM_autoeval" -> AfterAutoEval(st, body)
      [] st.pc = "merge" -> AfterMerge(st)
      [] OTHER -> st

\* the backend call raises: nothing in simplify.py, eval.py or eval_v2.py catches
FailWithPartialResult(st, err) ==
    [st EXCEPT !.result = ResultDict(Merge(st.claim_results, st.gt_results)),
               !.error = err, !.calls = LogCall(st), !.pc = "done"]
Fail(st, err) == [Unwind(st, err) EXCEPT !.calls = LogCall(st)]

Terminal(st) == st.pc \in {"done", "raised", "idle"}

\* a backend call ends by returning a body or by raising
Outcomes(st) ==
    {[raised |-> FALSE, body |-> b] : b \in Bodies(st)}
        \cup {[raised |-> TRUE, error |-> e] : e \in BackendErrors}
Apply(st, o) == IF o.raised THEN Fail(st, o.error) ELSE Step(st, o.body)
SameRequest(a, b) == a.op = b.op /\ a = b

(***************************************************************************)
(* The client factory (client.py) and the constructors it calls (LLM.py).  *)
(***************************************************************************)
SupportedProviders == {"bedrock", "openai", "anthropic", "gemini"}
ProviderIds == SupportedProviders \cup {"azure", "OpenAI"}
NoModel == "None"
NoKey == "None"
FactoryModels == {NoModel, "my-model"}
FactoryKeys == {NoKey, "key"}
NoClient == [none |-> TRUE]

\* client.py:108,115,123,131: the default model of each provider
ProviderDefaultModel(provider) ==
    CASE provider = "bedrock" -> "global.anthropic.claude-sonnet-4-5-20250929-v1:0"
      [] provider = "openai" -> "gpt-4o-mini"
      [] provider = "anthropic" -> "claude-sonnet-4-20250514"
      [] provider = "gemini" -> "gemini-2.0-flash"

\* the environment variable each constructor falls back to
EnvKeyOf(provider, env) ==
    CASE provider = "openai" -> env.OPENAI_API_KEY
      [] provider = "anthropic" -> env.ANTHROPIC_API_KEY
      [] provider = "gemini" -> env.GOOGLE_API_KEY
      [] OTHER -> FALSE

\* LLM.py:124-135, 234-250, 264-283, 384-403: the four constructors.
\* super_init: openai.AsyncOpenAI.__init__ ran; client: the object, if it was built
Construct(provider, model, api_key, env) ==
    LET have_key == api_key # NoKey \/ EnvKeyOf(provider, env)
        built == [provider |-> provider, default_model |-> model]
    IN CASE provider = "bedrock" ->
              [raised |-> FALSE, error |-> "", super_init |-> TRUE, client |-> built]
         [] provider = "openai" ->
              IF have_key
              THEN [raised |-> FALSE, error |-> "", super_init |-> TRUE, client |-> built]
              ELSE [raised |-> TRUE, error |-> "ValueError: API key not found",
                    super_init |-> FALSE, client |-> NoClient]
         [] OTHER ->
              IF have_key
              THEN [raised |-> FALSE, error |-> "", super_init |-> TRUE, client |-> built]
              ELSE [raised |-> TRUE, error |-> "ValueError: API key not found",
                    super_init |-> TRUE, client |-> NoClient]

\* client.py:106-150: what one call constructs, returns or raises
GetInstructorClientDefaulting(provider, model, api_key, env) ==
    LET c == Construct("bedrock", IF model # NoModel THEN model
                                  ELSE ProviderDefaultModel("bedrock"), api_key, env)
    IN [provider |-> provider, raised |-> c.raised, error |-> c.error,
        super_init |-> c.super_init, base_client |-> c.client,
        instructor_client |-> c.client]
GetInstructorClient(provider, model, api_key, env) ==
    IF provider \in SupportedProviders
    THEN LET c == Construct(provider,
                            IF model # NoModel THEN model
                            ELSE ProviderDefaultModel(provider), api_key, env)
         IN [provider |-> provider, raised |-> c.raised, error |-> c.error,
             super_init |-> c.super_init, base_client |-> c.client,
             instructor_client |-> c.client]
    ELSE [provider |-> provider, raised |-> TRUE,
          error |-> "ValueError: Unsupported provider",
          super_init |-> FALSE, base_client |-> NoClient,
          instructor_client |-> NoClient]

(***************************************************************************)
(* The provider clients of LLM.py.  BedrockAsyncOpenAI, AnthropicAsyncOpenAI*)
(* and GeminiAsyncOpenAI define chat.completions.create themselves;        *)
(* OpenAIAsyncClient inherits it from the vendor's library.                *)
(***************************************************************************)
Adapters == {"bedrock", "anthropic", "gemini"}
Roles == {"system", "user", "assistant", "tool"}
\* The adapters copy a message's content and never inspect it, so each
\* message of a request carries a content of its own, named after its place.
Contents == <<"m1", "m2", "m3", "m4">>
ChatMessages ==
    UNION {{[i \in 1..n |-> [role |-> roles[i], content |-> Contents[i]]] :
               roles \in [1..n -> Roles]} : n \in 0..MaxMsgs}
ReplyTexts == {"r1", "r2"}
\* a vendor payload whose content list is empty
EmptyPayload == "[]"
Payloads == ReplyTexts \cup {EmptyPayload}

\* LLM.py:65: the model Bedrock_LLM invokes
BedrockModelId == "global.anthropic.claude-sonnet-4-5-20250929-v1:0"

NoError == [kind |-> "", code |-> "", message |-> ""]
ErrorOf(text) == [kind |-> "ValueError", code |-> "", message |-> text]
\* LLM.py:60-62
AwsCredentialsMissing == ErrorOf("AWS credentials not found")
\* LLM.py:112, 332: content[0] of an empty content list
ContentIndexError == [kind |-> "IndexError", code |-> "", message |-> "list index out of range"]
\* what the vendor call may raise: a botocore ClientError, or anything else
BackendFailures ==
    {[kind |-> "ClientError", code |-> "ThrottlingException", message |-> "slow down"],
     [kind |-> "ClientError", code |-> "UnrecognizedClientException", message |-> "bad token"],
     [kind |-> "Exception", code |-> "", message |-> "connection reset"]}

NoResponse == [none |-> TRUE]

\* LLM.py:441-443: Gemini calls the assistant "model"
BackendRole(provider, role) ==
    IF provider = "gemini" /\ role = "assistant" THEN "model" ELSE role

\* LLM.py:163-173, 311-321, 431-443: the loop over the request's messages
RECURSIVE ScanMessagesNewestFirst(_, _, _)
ScanMessagesNewestFirst(provider, messages, acc) ==
    IF messages = <<>> THEN acc
    ELSE LET msg == Head(messages)
             next ==
                IF msg.role = "system"
                THEN [acc EXCEPT !.system_prompt = msg.content]
                ELSE IF msg.role \in {"user", "assistant"}
                THEN [acc EXCEPT !.messages =
                        <<[role |-> BackendRole(provider, msg.role),
                           content |-> msg.content]>> \o @]
                ELSE acc
         IN ScanMessagesNewestFirst(provider, Tail(messages), next)
RECURSIVE ScanMessages(_, _, _)
ScanMessages(provider, messages, acc) ==
    IF messages = <<>> THEN acc
    ELSE LET msg == Head(messages)
             next ==
                IF msg.role = "system"
                THEN [acc EXCEPT !.system_prompt = msg.content]
                ELSE IF msg.role \in {"user", "assistant"}
                THEN [acc EXCEPT !.messages =
                        Append(@, [role |-> BackendRole(provider, msg.role),
                                   content |-> msg.content])]
                ELSE acc
         IN ScanMessages(provider, Tail(messages), next)

\* LLM.py:72, 328, 449: Bedrock sends the prompt as it is, the others send
\* None for an empty one
SystemSent(provider, system_prompt) ==
    IF provider # "bedrock" /\ system_prompt = "" THEN "None" ELSE system_prompt

\* LLM.py:160, 308, 428: model = model or self.parent.default_model
ResolveModel(client, model) == IF model # NoModel THEN model ELSE client.default_model

\* LLM.py:65, 89, 325, 454: the model the vendor call names
InvokedModel(client, model) ==
    IF client.provider = "bedrock" THEN BedrockModelId ELSE ResolveModel(client, model)

\* LLM.py:186-219, 337-370, 463-496: the response object
CreateResponseCountingTokens(provider, text, model) ==
    [choices |-> <<[message |-> [content |-> text, role |-> "assistant",
                                 function_call |-> "None", tool_calls |-> "None"],
                    index |-> 0, finish_reason |-> "stop"]>>,
     model |-> model, id |-> provider, object |-> "chat.completion", created |-> 0,
     usage |-> [prompt_tokens |-> 0, completion_tokens |-> 1, total_tokens |-> 1]]
CreateResponse(provider, text, model) ==
    [choices |-> <<[message |-> [content |-> text, role |-> "assistant",
                                 function_call |-> "None", tool_calls |-> "None"],
                    index |-> 0, finish_reason |-> "stop"]>>,
     model |-> model, id |-> provider, object |-> "chat.completion", created |-> 0,
     usage |-> [prompt_tokens |-> 0, completion_tokens |-> 0, total_tokens |-> 0]]

\* a client that was never constructed
NoAdapter ==
    [pc |-> "none", client |-> NoClient, made |-> 0, model |-> NoModel,
     messages |-> <<>>, sent |-> <<>>, backend_calls |-> 0,
     received |-> "", failure |-> NoError, credential |-> FALSE,
     response |-> NoResponse, error |-> NoError]

\* LLM.py:35-36, 243, 275, 395: does the provider have the credential it needs
HasCredential(provider, api_key, env) ==
    IF provider = "bedrock" THEN env.AWS
    ELSE api_key # NoKey \/ EnvKeyOf(provider, env)

\* client.py:106-150 with LLM.py:124-135, 234-250, 264-283, 384-403
AfterConstruction(g) ==
    IF g.raised
    THEN [NoAdapter EXCEPT !.pc = "failed", !.error = ErrorOf(g.error)]
    ELSE [NoAdapter EXCEPT !.pc = "ready", !.client = g.base_client]

\* LLM.py:150-181 with 59-89, 298-330, 418-457: create up to its await.
\* Bedrock_LLM reads the module's credentials before it opens a session.
StartCreateCheckingLate(st, model, messages, env) ==
    LET provider == st.client.provider
        scan == ScanMessages(provider, messages, [system_prompt |-> "", messages |-> <<>>])
        call == [model |-> InvokedModel(st.client, model),
                 system |-> SystemSent(provider, scan.system_prompt),
                 messages |-> scan.messages]
        fresh == [st EXCEPT !.made = @ + 1, !.model = model, !.messages = messages,
                            !.sent = <<>>, !.received = "", !.failure = NoError,
                            !.response = NoResponse, !.error = NoError]
    IN IF provider = "bedrock" /\ ~env.AWS
       THEN [fresh EXCEPT !.error = AwsCredentialsMissing, !.sent = <<call>>,
                          !.backend_calls = @ + 1]
       ELSE [fresh EXCEPT !.pc = "awaiting", !.sent = <<call>>,
                          !.backend_calls = @ + 1]
StartCreate(st, model, messages, env) ==
    LET provider == st.client.provider
        scan == ScanMessages(provider, messages, [system_prompt |-> "", messages |-> <<>>])
        call == [model |-> InvokedModel(st.client, model),
                 system |-> SystemSent(provider, scan.system_prompt),
                 messages |-> scan.messages]
        fresh == [st EXCEPT !.made = @ + 1, !.model = model, !.messages = messages,
                            !.sent = <<>>, !.received = "", !.failure = NoError,
                            !.response = NoResponse, !.error = NoError]
    IN IF provider = "bedrock" /\ ~env.AWS
       THEN [fresh EXCEPT !.error = AwsCredentialsMissing]
       ELSE [fresh EXCEPT !.pc = "awaiting", !.sent = <<call>>,
                          !.backend_calls = @ + 1]

\* LLM.py:109-114 and 184, 332-335, 458-461: the vendor call returned
AfterBackendReturn(st, payload) ==
    IF payload = EmptyPayload
    THEN [st EXCEPT !.pc = "ready", !.error = ContentIndexError]
    ELSE [st EXCEPT !.pc = "ready",
                    !.response = CreateResponse(st.client.provider, payload,
                                                ResolveModel(st.client, st.model))]

\* LLM.py:90-107: Bedrock_LLM prints and re-raises; the other two adapters
\* catch nothing
AfterBackendFailureRetrying(st, e) ==
    IF Len(st.sent) < 2
    THEN [st EXCEPT !.sent = Append(@, @[1]), !.backend_calls = @ + 1]
    ELSE [st EXCEPT !.pc = "ready", !.error = e]
AfterBackendFailureSwallowed(st, e) ==
    [st EXCEPT !.pc = "ready",
               !.response = CreateResponse(st.client.provider, "",
                                           ResolveModel(st.client, st.model))]
AfterBackendFailure(st, e) == [st EXCEPT !.pc = "ready", !.error = e]

(***************************************************************************)
(* get_classification once the checker has answered: eval_v2.py:81-92.     *)
(***************************************************************************)
NoLabelling ==
    [pc |-> "idle", q_gen |-> <<>>, checks |-> <<>>, results |-> <<>>, error |-> ""]

\* eval_v2.py:82-92: the labels are attached by question text and the
\* results built; a pair that received no label has no 'label' key
AttachLabels(st) ==
    IF ~AllLabelled(st.q_gen, st.checks)
    THEN [st EXCEPT !.pc = "raised", !.error = "KeyError"]
    ELSE [st EXCEPT !.pc = "returned", !.results = Reconcile(st.q_gen, st.checks)]

(***************************************************************************)
(* text_simplifier called through an async client and awaited, as          *)
(* tests/test_simplify.py does.  create is a coroutine function            *)
(* (LLM.py:150, 298, 418), so text_simplifier, which does not await it,    *)
(* hands back the coroutine object.                                        *)
(***************************************************************************)
NoValue == [kind |-> "None", sentences |-> <<>>]
NoAwait ==
    [pc |-> "idle", text |-> "", value |-> NoValue, log |-> <<>>]

\* simplify.py:22-49: what text_simplifier returns before anything is awaited
TextSimplifierReturn(text) ==
    IF text = ""
    THEN [kind |-> "TextSimplify", sentences |-> <<>>]
    ELSE [kind |-> "coroutine", sentences |-> <<>>]

\* await value: a coroutine runs to its outcome, any other object raises
\* TypeError (object TextSimplify can't be used in 'await' expression)
AwaitOutcomes(value) ==
    IF value.kind = "coroutine"
    THEN {[result |-> [kind |-> "TextSimplify", sentences |-> b], error |-> ""] :
              b \in TextSimplifyBodies}
            \cup {[result |-> NoValue, error |-> e] : e \in BackendErrors}
    ELSE {[result |-> NoValue, error |-> "TypeError"]}

(***************************************************************************)
(* Evaluations that share one client.  evaluate keeps everything it        *)
(* computes in local variables (eval.py:61-86, eval_v2.py:68-153); the     *)
(* only object two evaluations have in common is the client they call.     *)
(***************************************************************************)
\* LLM.py:150-184, 298-335, 418-461: the client object after create ran
\* (create reads self.parent.default_model and assigns no attribute)
ClientAfterCreateRemembering(client, model) ==
    [client EXCEPT !.default_model = model]
ClientAfterCreate(client, model) == client

\* LLM.py:65, 89, 325, 454: the request as the client passes it to the vendor
ThroughClient(client, req) ==
    [req EXCEPT !.model = InvokedModel(client, req.model)]

\* a backend that answers as a function of the request it receives
Canned(req) ==
    CASE req.op = "text_simplifier" ->
            IF req.model = "custom-model" THEN <<"a">> ELSE <<"a", "b">>
      [] req.op = "question_generator" ->
            [i \in 1..Len(req.payload[1]) |->
                [ans |-> req.payload[1][i],
                 q |-> IF req.payload[1][i] = "a" THEN "q1" ELSE "q2"]]
      [] req.op = "question_checker" ->
            [i \in 1..Len(req.payload[1]) |->
                [q |-> req.payload[1][i],
                 label |-> (req.payload[2] # "" /\ req.payload[1][i] = "q1")]]
      [] req.op = "LLM_autoeval" ->
            IF req.payload[1] = req.payload[2]
            THEN [TP |-> req.payload[1], FP |-> <<>>, FN |-> <<>>]
            ELSE [TP |-> <<>>, FP |-> req.payload[1], FN |-> req.payload[2]]
      [] OTHER -> <<>>

\* one step of an evaluation whose backend calls go through client
StepThrough(st, client) ==
    IF Pending(st)
    THEN Step(st, Canned(ThroughClient(client, Request(st))))
    ELSE Step(st, <<>>)

(***************************************************************************)
(* State.                                                                  *)
(***************************************************************************)
VARIABLES
    ev,        \* a call of evaluate
    ev2,       \* a second call of evaluate with the same arguments
    paired,    \* do ev and ev2 run side by side (else only ev runs)
    sizes,     \* list sizes handed to the metric arithmetic
    scores,    \* the metrics computed from sizes
    env,       \* which credentials the environment holds
    factory,   \* what each call of get_instructor_client did, in call order
    llm,       \* a provider client: its construction and its calls of create
    rec,       \* get_classification attaching the checker's labels to the QA pairs
    sim        \* awaited calls of text_simplifier through an async client

vars == <<ev, ev2, paired, sizes, scores, env, factory, llm, rec, sim>>

NoScores == [none |-> TRUE]
NoEnv ==
    [AWS |-> FALSE, OPENAI_API_KEY |-> FALSE, ANTHROPIC_API_KEY |-> FALSE,
     GOOGLE_API_KEY |-> FALSE]

InitEvalIdle == ev = Idle /\ ev2 = Idle /\ paired = FALSE
InitMetricsIdle == sizes = [tp |-> 0, fp |-> 0, fn |-> 0] /\ scores = NoScores
InitFactoryIdle == env = NoEnv /\ factory = <<>>
InitAdapterIdle == llm = NoAdapter
InitReconcileIdle == rec = NoLabelling
InitAwaitIdle == sim = NoAwait

InitEval ==
    /\ ev \in {NewCall(1, s, c, g, m) :
                  s \in Strategies, c \in Texts, g \in Texts, m \in ModelNames}
    /\ ev2 = Idle
    /\ paired = FALSE

Init == InitEval /\ InitMetricsIdle /\ InitFactoryIdle /\ InitAdapterIdle /\ InitReconcileIdle /\ InitAwaitIdle

(***************************************************************************)
(* One call of evaluate against an arbitrary backend.                      *)
(***************************************************************************)
\* simplify.py:22-23: text == "" returns at once
SimplifyEmptyText ==
    /\ ~paired
    /\ ev.pc = "text_simplifier" /\ CurText(ev) = ""
    /\ ev' = Step(ev, <<>>)
    /\ UNCHANGED <<ev2, paired, sizes, scores, env, factory, llm, rec, sim>>

\* simplify.py:24-49: the decomposition call returns
SimplifyText ==
    /\ ~paired
    /\ ev.pc = "text_simplifier" /\ CurText(ev) # ""
    /\ \E body \in Bodies(ev) : ev' = Step(ev, body)
    /\ UNCHANGED <<ev2, paired, sizes, scores, env, factory, llm, rec, sim>>

\* eval_v2.py:19-34: the question generation call returns
GenerateQuestions ==
    /\ ~paired
    /\ ev.pc = "question_generator"
    /\ \E body \in Bodies(ev) : ev' = Step(ev, body)
    /\ UNCHANGED <<ev2, paired, sizes, scores, env, factory, llm, rec, sim>>

\* eval_v2.py:49-65 and 79-92: the checking call returns, labels are attached
CheckQuestions ==
    /\ ~paired
    /\ ev.pc = "question_checker"
    /\ \E body \in Bodies(ev) : ev' = Step(ev, body)
    /\ UNCHANGED <<ev2, paired, sizes, scores, env, factory, llm, rec, sim>>

\* eval_v2.py:116-153: merge, aggregate, return
MergeAndAggregate ==
    /\ ~paired
    /\ ev.pc = "merge"
    /\ ev' = Step(ev, <<>>)
    /\ UNCHANGED <<ev2, paired, sizes, scores, env, factory, llm, rec, sim>>

\* eval.py:37-59: the direct labelling call returns, metrics are added
AutoEvaluate ==
    /\ ~paired
    /\ ev.pc = "LLM_autoeval"
    /\ \E body \in Bodies(ev) : ev' = Step(ev, body)
    /\ UNCHANGED <<ev2, paired, sizes, scores, env, factory, llm, rec, sim>>

\* any backend call may raise instead of returning
BackendRaises ==
    /\ ~paired
    /\ Pending(ev)
    /\ \E err \in BackendErrors : ev' = Fail(ev, err)
    /\ UNCHANGED <<ev2, paired, sizes, scores, env, factory, llm, rec, sim>>

Next ==
    \/ SimplifyEmptyText
    \/ SimplifyText
    \/ GenerateQuestions
    \/ CheckQuestions
    \/ MergeAndAggregate
    \/ AutoEvaluate
    \/ BackendRaises

Spec == Init /\ [][Next]_vars

(***************************************************************************)
(* The same call of evaluate when every pending backend call eventually    *)
(* returns or raises and every local step is eventually taken.             *)
(***************************************************************************)
SpecFair == Init /\ [][Next]_vars /\ WF_vars(Next)

(***************************************************************************)
(* The same call of evaluate with the number of sentences of each          *)
(* decomposition kept as history.                                          *)
(***************************************************************************)
InitCounted ==
    /\ ev \in {[NewCall(1, s, c, g, m) EXCEPT !.counting = TRUE] :
                  s \in Strategies, c \in Texts, g \in Texts, m \in ModelNames}
    /\ ev2 = Idle
    /\ paired = FALSE
    /\ InitMetricsIdle
    /\ InitFactoryIdle
    /\ InitAdapterIdle /\ InitReconcileIdle /\ InitAwaitIdle

SpecCounted == InitCounted /\ [][Next]_vars

(***************************************************************************)
(* Two calls of evaluate with the same arguments against a deterministic   *)
(* backend, advancing side by side, one step each at a time.  A            *)
(* deterministic backend answers equal requests equally: when the second   *)
(* call sends the request the first call sends, it receives what the first *)
(* call receives; a request that differs may be answered in any way.       *)
(* (Equal requests at different steps are not tied to each other, which    *)
(* only admits more backends.)                                             *)
(***************************************************************************)
InitTwice ==
    /\ \E s \in Strategies, c \in Texts, g \in Texts, m \in ModelNames :
          /\ ev = NewCall(1, s, c, g, m)
          /\ ev2 = NewCall(2, s, c, g, m)
    /\ paired = TRUE
    /\ InitMetricsIdle
    /\ InitFactoryIdle
    /\ InitAdapterIdle /\ InitReconcileIdle /\ InitAwaitIdle

\* what the backend may answer to st's pending request, when another call
\* sends request req at the same time and receives o
Answers(st, req, o) == IF SameRequest(Request(st), req) THEN {o} ELSE Outcomes(st)

\* both calls wait for the backend
BothCallsReceive ==
    /\ paired
    /\ Pending(ev) /\ Pending(ev2)
    /\ \E o \in Outcomes(ev) :
          /\ ev' = Apply(ev, o)
          /\ \E o2 \in Answers(ev2, Request(ev), o) : ev2' = Apply(ev2, o2)
    /\ UNCHANGED <<paired, sizes, scores, env, factory, llm, rec, sim>>

\* neither call waits for the backend: each takes its local step
BothCallsCompute ==
    /\ paired
    /\ ~Pending(ev) /\ ~Pending(ev2)
    /\ ~(Terminal(ev) /\ Terminal(ev2))
    /\ ev' = Step(ev, <<>>)
    /\ ev2' = Step(ev2, <<>>)
    /\ UNCHANGED <<paired, sizes, scores, env, factory, llm, rec, sim>>

NextTwice == BothCallsReceive \/ BothCallsCompute

SpecTwice == InitTwice /\ [][NextTwice]_vars

(***************************************************************************)
(* The metric arithmetic on its own, for every triple of list sizes.       *)
(***************************************************************************)
InitMetrics ==
    /\ sizes \in [tp : 0..MaxCount, fp : 0..MaxCount, fn : 0..MaxCount]
    /\ scores = NoScores
    /\ InitEvalIdle
    /\ InitFactoryIdle
    /\ InitAdapterIdle /\ InitReconcileIdle /\ InitAwaitIdle

\* eval.py:46-59 and eval_v2.py:140-153
ComputeMetrics ==
    /\ scores = NoScores
    /\ scores' = Metrics(sizes.tp, sizes.fp, sizes.fn)
    /\ UNCHANGED <<ev, ev2, paired, sizes, env, factory, llm, rec, sim>>

NextMetrics == ComputeMetrics

SpecMetrics == InitMetrics /\ [][NextMetrics]_vars

(***************************************************************************)
(* Calls of get_instructor_client.                                         *)
(***************************************************************************)
InitFactory ==
    /\ env \in [AWS : BOOLEAN, OPENAI_API_KEY : BOOLEAN,
                ANTHROPIC_API_KEY : BOOLEAN, GOOGLE_API_KEY : BOOLEAN]
    /\ factory = <<>>
    /\ InitEvalIdle
    /\ InitMetricsIdle
    /\ InitAdapterIdle /\ InitReconcileIdle /\ InitAwaitIdle

\* client.py:45-150
CallGetInstructorClient ==
    /\ Len(factory) < MaxFactoryCalls
    /\ \E provider \in ProviderIds, model \in FactoryModels, api_key \in FactoryKeys :
          factory' = Append(factory, GetInstructorClient(provider, model, api_key, env))
    /\ UNCHANGED <<ev, ev2, paired, sizes, scores, env, llm, rec, sim>>

NextFactory == CallGetInstructorClient

SpecFactory == InitFactory /\ [][NextFactory]_vars

(***************************************************************************)
(* One provider client: its construction, then calls of                    *)
(* chat.completions.create, one at a time, each suspended at its vendor    *)
(* call until the vendor returns or raises.  The credentials are read once *)
(* (os.getenv at import and in the constructors) and do not change.        *)
(***************************************************************************)
FullEnv ==
    [AWS |-> TRUE, OPENAI_API_KEY |-> TRUE, ANTHROPIC_API_KEY |-> TRUE,
     GOOGLE_API_KEY |-> TRUE]

InitAdapter ==
    /\ env \in {NoEnv, FullEnv}
    /\ factory = <<>>
    /\ llm = NoAdapter
    /\ InitEvalIdle
    /\ InitMetricsIdle
    /\ InitReconcileIdle
    /\ InitAwaitIdle

\* client.py:106-150: a client is asked for
ConstructClient ==
    /\ llm.pc = "none"
    /\ \E provider \in SupportedProviders, model \in FactoryModels,
          api_key \in FactoryKeys :
          llm' = [AfterConstruction(GetInstructorClient(provider, model, api_key, env))
                    EXCEPT !.credential = HasCredential(provider, api_key, env)]
    /\ UNCHANGED <<ev, ev2, paired, sizes, scores, env, factory, rec, sim>>

\* LLM.py:150-181, 298-330, 418-457: create runs up to its vendor call
Create ==
    /\ llm.pc = "ready"
    /\ llm.client.provider \in Adapters
    /\ llm.made < MaxCreates
    /\ \E model \in FactoryModels, messages \in ChatMessages :
          llm' = StartCreate(llm, model, messages, env)
    /\ UNCHANGED <<ev, ev2, paired, sizes, scores, env, factory, rec, sim>>

\* LLM.py:109-114 and 184, 332-335, 458-461: the vendor call returns
BackendReturns ==
    /\ llm.pc = "awaiting"
    /\ \E payload \in Payloads :
          /\ payload = EmptyPayload => llm.client.provider # "gemini"
          /\ llm' = [AfterBackendReturn(llm, payload) EXCEPT !.received = payload]
    /\ UNCHANGED <<ev, ev2, paired, sizes, scores, env, factory, rec, sim>>

\* LLM.py:90-107: the vendor call raises
BackendFails ==
    /\ llm.pc = "awaiting"
    /\ \E e \in BackendFailures :
          llm' = [AfterBackendFailure(llm, e) EXCEPT !.failure = e]
    /\ UNCHANGED <<ev, ev2, paired, sizes, scores, env, factory, rec, sim>>

NextAdapter == ConstructClient \/ Create \/ BackendReturns \/ BackendFails

SpecAdapter == InitAdapter /\ [][NextAdapter]_vars

(***************************************************************************)
(* Label reconciliation on its own, for every QA list and every answer of  *)
(* the checker.                                                            *)
(***************************************************************************)
InitReconcile ==
    /\ rec \in {[NoLabelling EXCEPT !.pc = "labelling", !.q_gen = g, !.checks = c] :
                   g \in QuestionAnswerListBodies, c \in QuestionListBodies}
    /\ InitEvalIdle
    /\ InitMetricsIdle
    /\ InitFactoryIdle
    /\ InitAdapterIdle
    /\ InitAwaitIdle

\* eval_v2.py:81-92
Reconciles ==
    /\ rec.pc = "labelling"
    /\ rec' = AttachLabels(rec)
    /\ UNCHANGED <<ev, ev2, paired, sizes, scores, env, factory, llm, sim>>

NextReconcile == Reconciles

SpecReconcile == InitReconcile /\ [][NextReconcile]_vars

(***************************************************************************)
(* Awaited calls of text_simplifier, one after the other.                  *)
(***************************************************************************)
InitAwait ==
    /\ sim = NoAwait
    /\ InitEvalIdle
    /\ InitMetricsIdle
    /\ InitFactoryIdle
    /\ InitAdapterIdle
    /\ InitReconcileIdle

\* simplify.py:11-49: text_simplifier(text, model_name, client) is called
CallTextSimplifier ==
    /\ sim.pc = "idle"
    /\ Len(sim.log) < MaxAwaits
    /\ \E text \in Texts :
          sim' = [sim EXCEPT !.pc = "await", !.text = text,
                             !.value = TextSimplifierReturn(text)]
    /\ UNCHANGED <<ev, ev2, paired, sizes, scores, env, factory, llm, rec>>

\* tests/test_simplify.py:19, 27: result = await text_simplifier(...)
AwaitValue ==
    /\ sim.pc = "await"
    /\ \E o \in AwaitOutcomes(sim.value) :
          sim' = [sim EXCEPT !.pc = "idle", !.text = "", !.value = NoValue,
                             !.log = Append(@, [text |-> sim.text, result |-> o.result,
                                                error |-> o.error])]
    /\ UNCHANGED <<ev, ev2, paired, sizes, scores, env, factory, llm, rec>>

NextAwait == CallTextSimplifier \/ AwaitValue

SpecAwait == InitAwait /\ [][NextAwait]_vars

(***************************************************************************)
(* Two calls of evaluate, each with its own arguments, running at the same *)
(* time through one client; their backend calls interleave in any order.   *)
(***************************************************************************)
InitConcurrent ==
    /\ ev \in {NewCall(1, s, c, g, m) :
                  s \in Strategies, c \in Texts, g \in Texts, m \in ModelNames}
    /\ ev2 \in {NewCall(2, s, c, g, m) :
                   s \in Strategies, c \in Texts, g \in Texts, m \in ModelNames}
    /\ paired = FALSE
    /\ env = FullEnv
    /\ factory = <<>>
    /\ llm \in {AfterConstruction(GetInstructorClient(p, NoModel, NoKey, FullEnv)) :
                   p \in Adapters}
    /\ InitMetricsIdle
    /\ InitReconcileIdle
    /\ InitAwaitIdle

\* the first evaluation makes its next backend call and runs on to the
\* following one
FirstCalls ==
    /\ Pending(ev)
    /\ ev' = StepThrough(ev, llm.client)
    /\ llm' = [llm EXCEPT !.client = ClientAfterCreate(@, CalledModel(ev))]
    /\ UNCHANGED <<ev2, paired, sizes, scores, env, factory, rec, sim>>

\* the first evaluation takes a step that calls no backend
FirstComputes ==
    /\ ~Pending(ev) /\ ~Terminal(ev)
    /\ ev' = StepThrough(ev, llm.client)
    /\ UNCHANGED <<ev2, paired, sizes, scores, env, factory, llm, rec, sim>>

SecondCalls ==
    /\ Pending(ev2)
    /\ ev2' = StepThrough(ev2, llm.client)
    /\ llm' = [llm EXCEPT !.client = ClientAfterCreate(@, CalledModel(ev2))]
    /\ UNCHANGED <<ev, paired, sizes, scores, env, factory, rec, sim>>

SecondComputes ==
    /\ ~Pending(ev2) /\ ~Terminal(ev2)
    /\ ev2' = StepThrough(ev2, llm.client)
    /\ UNCHANGED <<ev, paired, sizes, scores, env, factory, llm, rec, sim>>

NextConcurrent == FirstCalls \/ FirstComputes \/ SecondCalls \/ SecondComputes

SpecConcurrent == InitConcurrent /\ [][NextConcurrent]_vars

(***************************************************************************)
(* Properties.                                                             *)
(***************************************************************************)
ResultFields == {"TP", "FP", "FN", "recall", "precision", "f1_score"}
Range(seq) == {seq[i] : i \in 1..Len(seq)}

\* C1: text_simplifier called with the empty string returns an empty sentence
\* list and issues no backend call: the step it takes from "" leaves the call
\* log as it was and hands on an empty list.
C1_EmptyTextNoBackendCall ==
    [][(ev.pc = "text_simplifier" /\ CurText(ev) = "")
          => /\ ev'.calls = ev.calls
             /\ IF ev.strategy = "direct" /\ ev.dir = "bwd"
                THEN ev'.simplified_ground_truth = <<>>
                ELSE ev'.simplified_claim = <<>>]_vars

\* C1 witness: the claim was "", its decomposition has returned, nothing was
\* sent to the backend
C1_Witness ==
    /\ ev.claim = "" /\ ev.dir = "fwd" /\ ev.pc = "question_generator"
    /\ ev.simplified_claim = <<>> /\ ev.calls = <<>>

\* C2: for every non-empty text and every schema-conforming response,
\* text_simplifier returns a non-empty list of sentences.
C2_NonEmptyTextNonEmptyList ==
    /\ (ev.pc = "question_generator" /\ CurText(ev) # "")
          => ev.simplified_claim # <<>>
    /\ (ev.pc = "LLM_autoeval" /\ ev.claim # "") => ev.simplified_claim # <<>>
    /\ (ev.pc = "LLM_autoeval" /\ ev.ground_truth # "")
          => ev.simplified_ground_truth # <<>>

\* C3: in every completed evaluation len(TP)+len(FP) is the number of sentences
\* the claim was decomposed into and len(TP)+len(FN) the number the ground
\* truth was decomposed into.
C3_ListSizesMatchCandidates ==
    ev.pc = "done" =>
        /\ Len(ev.result.TP) + Len(ev.result.FP) = ev.cands.fwd
        /\ Len(ev.result.TP) + Len(ev.result.FN) = ev.cands.bwd

\* C4: in the result of one evaluation a sentence appears in exactly one of
\* the lists TP, FP and FN.
C4_SentenceInOneList ==
    ev.pc = "done" =>
        \A s \in Range(ev.result.TP) \cup Range(ev.result.FP) \cup Range(ev.result.FN) :
            Cardinality({f \in {"TP", "FP", "FN"} : s \in Range(ev.result[f])}) = 1

\* the sentences of a labelled list that carry label b, in list order
RECURSIVE Labelled(_, _)
Labelled(pairs, b) ==
    IF pairs = <<>> THEN <<>>
    ELSE (IF Head(pairs).label = b THEN <<Head(pairs).ans>> ELSE <<>>)
            \o Labelled(Tail(pairs), b)

SameNumber(x, n, d) == x[1] * d = n * x[2]

\* C6: for every triple of list sizes precision = tp/(tp+fp), recall =
\* tp/(tp+fn) and f1_score = 2*precision*recall/(precision+recall), each
\* exactly 0 when its denominator is 0; sizes (1,2,1) give 1/3, 1/2, 0.4 and
\* sizes (2,0,0) give 1, 1, 1.
C6_MetricFormulas ==
    scores # NoScores =>
        LET tp == sizes.tp
            fp == sizes.fp
            fn == sizes.fn
        IN /\ IF tp + fp > 0 THEN SameNumber(scores.precision, tp, tp + fp)
                             ELSE scores.precision = <<0, 1>>
           /\ IF tp + fn > 0 THEN SameNumber(scores.recall, tp, tp + fn)
                             ELSE scores.recall = <<0, 1>>
           \* p + r = (tp*(tp+fn) + tp*(tp+fp)) / ((tp+fp)*(tp+fn)), and
           \* 2*p*r = 2*tp*tp / ((tp+fp)*(tp+fn)), where both are defined
           /\ IF tp + fp > 0 /\ tp + fn > 0 /\ tp > 0
              THEN SameNumber(scores.f1_score, 2 * tp * tp,
                              tp * (tp + fn) + tp * (tp + fp))
              ELSE scores.f1_score = <<0, 1>>
           /\ (tp = 1 /\ fp = 2 /\ fn = 1)
                 => /\ scores.precision = <<1, 3>>
                    /\ scores.recall = <<1, 2>>
                    /\ scores.f1_score = <<2, 5>>
           /\ (tp = 2 /\ fp = 0 /\ fn = 0)
                 => /\ scores.precision = <<1, 1>>
                    /\ scores.recall = <<1, 1>>
                    /\ scores.f1_score = <<1, 1>>

\* C6 witness: the metrics of sizes (1, 2, 1) have been computed
C6_Witness ==
    /\ sizes = [tp |-> 1, fp |-> 2, fn |-> 1]
    /\ scores # NoScores /\ scores.f1_score = <<2, 5>>

InUnitInterval(x) == x[2] > 0 /\ 0 <= x[1] /\ x[1] <= x[2]

\* C7: for all list sizes, precision, recall and f1_score each lie in [0,1].
C7_MetricsInUnitInterval ==
    scores # NoScores =>
        /\ InUnitInterval(scores.precision)
        /\ InUnitInterval(scores.recall)
        /\ InUnitInterval(scores.f1_score)

\* C7 witness: metrics strictly inside the interval, and one at its upper end
C7_Witness ==
    /\ scores # NoScores
    /\ sizes.tp > 0 /\ sizes.fp > 0 /\ sizes.fn = 0
    /\ scores.recall = <<1, 1>>
    /\ scores.precision[1] < scores.precision[2]

C9_ResultShape ==
    ev.pc = "done" =>
        /\ DOMAIN ev.result = ResultFields
        /\ \A f \in {"TP", "FP", "FN"} :
              /\ DOMAIN ev.result[f] = 1..Len(ev.result[f])
              /\ Range(ev.result[f]) \subseteq Sentences
        /\ \A f \in {"recall", "precision", "f1_score"} : ev.result[f][2] > 0

\* C9 witness: the direct strategy has returned a result
C9_Witness ==
    /\ ev.pc = "done" /\ ev.strategy = "direct"
    /\ ev.result.TP # <<>> /\ ev.result.FP # <<>>

\* C10: a call of get_instructor_client with a provider outside bedrock,
\* openai, anthropic, gemini raises the unsupported-provider error and builds
\* neither a base client nor an instructor-wrapped client.
C10_UnknownProviderBuildsNothing ==
    \A i \in 1..Len(factory) :
        factory[i].provider \notin SupportedProviders =>
            /\ factory[i].raised
            /\ factory[i].error = "ValueError: Unsupported provider"
            /\ ~factory[i].super_init
            /\ factory[i].base_client = NoClient
            /\ factory[i].instructor_client = NoClient

\* C10 witness: an unknown provider was asked for after a client was built
C10_Witness ==
    /\ Len(factory) = 2
    /\ factory[1].provider = "openai" /\ ~factory[1].raised
    /\ factory[2].provider = "azure" /\ factory[2].raised

MissingCredentialErrors ==
    {AwsCredentialsMissing, ErrorOf("ValueError: API key not found")}

\* C11: for each of the four providers, a client whose required credential is
\* absent is never constructed: construction itself raises the
\* missing-credential error, before any call of create.
C11_MissingCredentialFailsConstruction ==
    (llm.pc # "none" /\ ~llm.credential) =>
        /\ llm.pc = "failed"
        /\ llm.error \in MissingCredentialErrors
        /\ llm.made = 0

\* C12: whenever the missing-credential error is raised, at construction or in
\* a call of create, no backend call has been attempted: the client's count of
\* vendor calls is 0 and the call that raised sent nothing.
C12_MissingCredentialBeforeBackendCall ==
    llm.error \in MissingCredentialErrors =>
        /\ llm.backend_calls = 0
        /\ llm.sent = <<>>

\* C12 witness: the second create of a Bedrock client without credentials
\* raised, and the vendor was never called
C12_Witness ==
    /\ llm.client # NoClient /\ llm.client.provider = "bedrock"
    /\ ~llm.credential
    /\ llm.made = 2
    /\ llm.error = AwsCredentialsMissing
    /\ llm.backend_calls = 0

\* C13: a create whose request names a model invokes that model, one whose
\* request names none invokes the client's default model, and the model the
\* response reports is the model that was invoked.
C13_RequestModelIsInvoked ==
    llm.sent # <<>> =>
        /\ llm.sent[1].model =
              (IF llm.model # NoModel THEN llm.model ELSE llm.client.default_model)
        /\ llm.response # NoResponse => llm.response.model = llm.sent[1].model

\* has get_classification returned for this direction of the question-based
\* evaluate
ClassificationReturned(st, dir) ==
    /\ st.strategy = "qa"
    /\ IF dir = "fwd" THEN st.dir = "bwd" ELSE st.pc \in {"merge", "done"}

\* C14: what get_classification returns carries one label per candidate
\* sentence: as many entries as candidates, and the labelled texts are the
\* candidates, none missing and none extra.
C14_OneLabelPerCandidate ==
    \A dir \in {"fwd", "bwd"} :
        ClassificationReturned(ev, dir) =>
            /\ Len(ev.labels[dir]) = Len(ev.texts[dir])
            /\ {ev.labels[dir][i].ans : i \in 1..Len(ev.labels[dir])}
                   = Range(ev.texts[dir])

\* C15: when a backend call of an evaluation fails, evaluate has raised the
\* backend's error and returned nothing: no lists, no metrics.
C15_BackendFailureNoResult ==
    /\ ev.error \in BackendErrors => ev.pc = "raised" /\ ev.result = NoResult
    /\ ev.pc = "done" => ev.error = ""
    /\ ev.pc = "raised" => ev.result = NoResult /\ ev.error # ""

\* C15 witness: the backward pass of a question-based evaluation fails after
\* the forward pass had labelled a sentence
C15_Witness ==
    /\ ev.strategy = "qa" /\ ev.pc = "raised" /\ ev.dir = "bwd"
    /\ ev.error = "SchemaDecodingFailed"
    /\ ev.labels.fwd # <<>>
    /\ ev.result = NoResult

ResponseFieldSet == {"choices", "model", "id", "object", "created", "usage"}

\* C16: every response an adapter returns has the same fields: one choice
\* whose message holds the backend's text with role assistant, a finish
\* reason, the model, and a usage triple of three zeros.
C16_CanonicalResponse ==
    llm.response # NoResponse =>
        /\ DOMAIN llm.response = ResponseFieldSet
        /\ Len(llm.response.choices) = 1
        /\ llm.response.choices[1].message.content = llm.received
        /\ llm.response.choices[1].message.role = "assistant"
        /\ llm.response.choices[1].finish_reason = "stop"
        /\ llm.response.model \in FactoryModels \cup
              {ProviderDefaultModel(p) : p \in SupportedProviders}
        /\ llm.response.usage =
              [prompt_tokens |-> 0, completion_tokens |-> 0, total_tokens |-> 0]

\* C16 witness: the Gemini adapter returned a response
C16_Witness ==
    /\ llm.response # NoResponse
    /\ llm.client.provider = "gemini"
    /\ llm.received = "r2"
    /\ llm.response.choices[1].message.content = "r2"

SystemMessages(messages) ==
    {i \in 1..Len(messages) : messages[i].role = "system"}

\* C17: when a request holds more than one system message, the system prompt
\* the adapter sends is the content of the first of them.
C17_FirstSystemMessageWins ==
    (llm.sent # <<>> /\ Cardinality(SystemMessages(llm.messages)) > 1) =>
        LET first == CHOOSE i \in SystemMessages(llm.messages) :
                        \A j \in SystemMessages(llm.messages) : i <= j
        IN llm.sent[1].system = llm.messages[first].content

IsTurn(msg) == msg.role \in {"user", "assistant"}

\* C18: the messages an adapter sends are the request's user and assistant
\* messages, in the request's order, each with its content and its role
\* (assistant named model for Gemini); messages of any other role are left
\* out and the call raises nothing for them.
C18_TurnsForwardedInOrder ==
    /\ llm.sent # <<>> =>
          LET turns == SelectSeq(llm.messages, IsTurn)
          IN llm.sent[1].messages =
                [i \in 1..Len(turns) |->
                    [role |-> IF llm.client.provider = "gemini"
                                 /\ turns[i].role = "assistant"
                              THEN "model" ELSE turns[i].role,
                     content |-> turns[i].content]]
    /\ (llm.made > 0 /\ llm.sent = <<>>) => llm.error = AwsCredentialsMissing

\* C18 witness: Gemini was sent an assistant turn as model, and the message of
\* an unknown role before it was left out
C18_Witness ==
    /\ llm.pc = "awaiting"
    /\ llm.client.provider = "gemini"
    /\ llm.messages = <<[role |-> "tool", content |-> "m1"],
                        [role |-> "assistant", content |-> "m2"]>>
    /\ llm.sent[1].messages = <<[role |-> "model", content |-> "m2"]>>

\* C19: one call of create makes one vendor call: at most one whatever
\* happens, and exactly one when it returned a response or the vendor failed.
C19_OneBackendCallPerCreate ==
    /\ Len(llm.sent) <= 1
    /\ llm.backend_calls <= llm.made
    /\ llm.response # NoResponse => Len(llm.sent) = 1
    /\ llm.failure # NoError => Len(llm.sent) = 1

\* C19 witness: two calls of create, two vendor calls, the second returned
C19_Witness ==
    /\ llm.made = 2 /\ llm.backend_calls = 2
    /\ llm.response # NoResponse
    /\ Len(llm.sent) = 1

\* C20: when the vendor call fails, create has ended by raising the vendor's
\* error, code and message as reported, after the one call it made, and has
\* returned no response.
C20_BackendFailureRaised ==
    llm.failure # NoError =>
        /\ llm.pc = "ready"
        /\ llm.error = llm.failure
        /\ llm.response = NoResponse
        /\ Len(llm.sent) = 1

\* C20 witness: Bedrock reported a throttling error and create raised it
C20_Witness ==
    /\ llm.client # NoClient /\ llm.client.provider = "bedrock"
    /\ llm.failure.code = "ThrottlingException"
    /\ llm.error.code = "ThrottlingException"
    /\ llm.error.message = "slow down"
    /\ llm.response = NoResponse

Stage(op, dir) == [op |-> op, dir |-> dir]
\* the place of a stage in the history of stages, 0 when it has not returned
PlaceOf(stage, stages) ==
    IF \E i \in 1..Len(stages) : stages[i] = stage
    THEN CHOOSE i \in 1..Len(stages) : stages[i] = stage
    ELSE 0
Before(first, second, stages) ==
    PlaceOf(second, stages) > 0 =>
        (PlaceOf(first, stages) > 0 /\ PlaceOf(first, stages) < PlaceOf(second, stages))

\* C22: within one evaluation a classification call is pending only once the
\* decomposition it consumes has returned, and merge/aggregation is reached
\* only once both classification passes have returned; the stages that have
\* returned did so in that order.
C22_StagesOrdered ==
    /\ ev.pc \in {"question_generator", "question_checker"} =>
          PlaceOf(Stage("text_simplifier", ev.dir), ev.stages) > 0
    /\ ev.pc = "question_checker" =>
          PlaceOf(Stage("question_generator", ev.dir), ev.stages) > 0
    /\ ev.pc = "LLM_autoeval" =>
          /\ PlaceOf(Stage("text_simplifier", "fwd"), ev.stages) > 0
          /\ PlaceOf(Stage("text_simplifier", "bwd"), ev.stages) > 0
    /\ (ev.pc = "merge" \/ (ev.pc = "done" /\ ev.strategy = "qa")) =>
          /\ PlaceOf(Stage("question_checker", "fwd"), ev.stages) > 0
          /\ PlaceOf(Stage("question_checker", "bwd"), ev.stages) > 0
    /\ \A dir \in {"fwd", "bwd"} :
          /\ Before(Stage("text_simplifier", dir), Stage("question_generator", dir),
                    ev.stages)
          /\ Before(Stage("question_generator", dir), Stage("question_checker", dir),
                    ev.stages)
          /\ Before(Stage("question_checker", dir), Stage("merge", "bwd"), ev.stages)
          /\ Before(Stage("text_simplifier", dir), Stage("LLM_autoeval", "bwd"),
                    ev.stages)

\* C22 witness: merge is about to start after both passes returned
C22_Witness ==
    /\ ev.pc = "merge"
    /\ Len(ev.stages) = 6
    /\ ev.stages[3] = Stage("question_checker", "fwd")
    /\ ev.stages[6] = Stage("question_checker", "bwd")

\* C23: when every backend call returns or raises, evaluate ends, by a result
\* or by an error; no stage returns twice and no more backend calls are made
\* than the pipeline has (six for the question-based evaluate, three for the
\* direct one).
C23_TerminatesWithoutRetry ==
    /\ <>(ev.pc \in {"done", "raised"})
    /\ [](\A i, j \in 1..Len(ev.stages) : i # j => ev.stages[i] # ev.stages[j])
    /\ [](Len(ev.calls) <= IF ev.strategy = "qa" THEN 6 ELSE 3)

\* C23 witness: a question-based evaluation ended after its seven stages and
\* six backend calls
C23_Witness ==
    /\ ev.pc = "done" /\ ev.strategy = "qa"
    /\ Len(ev.stages) = 7
    /\ Len(ev.calls) = 6

\* C27: every backend request of the question-based evaluate carries the
\* model_name its caller passed.
C27_CallerModelUsed ==
    ev.strategy = "qa" =>
        \A i \in 1..Len(ev.calls) : ev.calls[i].model = ev.model_name

\* the backend calls of the question-based evaluate, in order, for its inputs
PassCalls(text) ==
    (IF text = "" THEN <<>> ELSE <<"text_simplifier">>)
        \o <<"question_generator", "question_checker">>
ExpectedCalls(st) == PassCalls(st.claim) \o PassCalls(st.ground_truth)
CallOrderKept(st) ==
    /\ Len(st.calls) <= Len(ExpectedCalls(st))
    /\ \A i \in 1..Len(st.calls) : st.calls[i].op = ExpectedCalls(st)[i]
    /\ st.pc = "done" => Len(st.calls) = Len(ExpectedCalls(st))

\* C28: the question-based evaluate issues its backend calls in the order
\* simplify, generate, check for the claim and then for the ground truth, six
\* calls when both are non-empty; for an empty input only the simplify call is
\* left out, and the generation and checking calls of that direction are
\* issued with an empty list.
C28_SixCallsInOrder ==
    ev.strategy = "qa" =>
        /\ CallOrderKept(ev)
        /\ (ev.pc = "question_checker" /\ RefText(ev) # "" /\ CurText(ev) # "") =>
              Request(ev).payload[2] = RefText(ev)
        /\ (ev.pc = "question_generator" /\ CurText(ev) = "") =>
              Request(ev).payload = <<<<>>>>
        /\ (ev.pc = "question_checker" /\ CurText(ev) = "") =>
              Request(ev).payload[1] = <<>>

\* can the checker's answer not be matched with the generated questions
Mismatch(q_gen, checks) ==
    \/ \E i \in 1..Len(q_gen) : \A j \in 1..Len(checks) : checks[j].q # q_gen[i].q
    \/ Len(checks) # Len(q_gen)

\* C21: when the checker's answer cannot be reconciled with the candidates (a
\* generated question has no returned entry of equal text, or the counts
\* differ), classification raises LabelReconciliationMismatch.
C21_MismatchRaised ==
    (rec.pc \in {"returned", "raised"} /\ Mismatch(rec.q_gen, rec.checks)) =>
        /\ rec.pc = "raised"
        /\ rec.error = "LabelReconciliationMismatch"

\* C24: the QA list handed to the checker is 1:1 with the decomposed
\* sentences: as long as the sentence list, the i-th pair's sentence being
\* the i-th decomposed sentence.
C24_PairsMatchSentences ==
    (ev.strategy = "qa" /\ ev.pc = "question_checker") =>
        /\ Len(ev.q_gen) = Len(ev.texts[ev.dir])
        /\ \A i \in 1..Len(ev.q_gen) : ev.q_gen[i].ans = ev.texts[ev.dir][i]

\* C26: awaiting text_simplifier through the async client yields a
\* TextSimplify whenever the backend does not fail, for the empty text (no
\* sentences) as for a non-empty one.
C26_AwaitYieldsTextSimplify ==
    \A i \in 1..Len(sim.log) :
        sim.log[i].error \notin BackendErrors =>
            /\ sim.log[i].error = ""
            /\ sim.log[i].result.kind = "TextSimplify"
            /\ sim.log[i].text = "" => sim.log[i].result.sentences = <<>>

\* C30: a candidate receives the label of the last entry the checker returned
\* for its question, and candidates with the same question text receive the
\* same label.
C30_LastLabelWins ==
    rec.pc = "returned" =>
        /\ Len(rec.results) = Len(rec.q_gen)
        /\ \A i \in 1..Len(rec.q_gen) :
              /\ rec.results[i].ans = rec.q_gen[i].ans
              /\ \A j \in 1..Len(rec.checks) :
                    (/\ rec.checks[j].q = rec.q_gen[i].q
                     /\ \A k \in (j + 1)..Len(rec.checks) :
                           rec.checks[k].q # rec.q_gen[i].q)
                        => rec.results[i].label = rec.checks[j].label
        /\ \A i, j \in 1..Len(rec.q_gen) :
              rec.q_gen[i].q = rec.q_gen[j].q =>
                  rec.results[i].label = rec.results[j].label

\* C30 witness: the checker answered the one question of two candidates
\* twice, first True and then False
C30_Witness ==
    /\ rec.pc = "returned"
    /\ rec.q_gen = <<[ans |-> "a", q |-> "q1"], [ans |-> "b", q |-> "q1"]>>
    /\ rec.checks = <<[q |-> "q1", label |-> TRUE], [q |-> "q1", label |-> FALSE]>>
    /\ rec.results = <<[ans |-> "a", label |-> FALSE], [ans |-> "b", label |-> FALSE]>>

\* C29: for all list sizes f1_score equals 2*tp/(2*tp+fp+fn) when tp > 0,
\* f1_score is 0 exactly when tp = 0, precision is 1 exactly when tp > 0 and
\* fp = 0, and recall is 1 exactly when tp > 0 and fn = 0.
C29_F1ClosedForm ==
    scores # NoScores =>
        LET tp == sizes.tp
            fp == sizes.fp
            fn == sizes.fn
        IN /\ tp > 0 => SameNumber(scores.f1_score, 2 * tp, 2 * tp + fp + fn)
           /\ (scores.f1_score[1] = 0) <=> (tp = 0)
           /\ (scores.precision = <<1, 1>>) <=> (tp > 0 /\ fp = 0)
           /\ (scores.recall = <<1, 1>>) <=> (tp > 0 /\ fn = 0)

\* C29 witness: sizes (2, 1, 0) give recall 1, precision 2/3 and f1 4/5
C29_Witness ==
    /\ sizes = [tp |-> 2, fp |-> 1, fn |-> 0]
    /\ scores # NoScores
    /\ scores.recall = <<1, 1>>
    /\ scores.precision = <<2, 3>>
    /\ scores.f1_score = <<4, 5>>

\* the states an evaluation passes through when nothing else uses the client
RECURSIVE PathAlone(_, _)
PathAlone(st, client) ==
    IF Terminal(st) THEN {st} ELSE {st} \cup PathAlone(StepThrough(st, client), client)

\* the evaluation as it was called
Started(st) == NewCall(st.id, st.strategy, st.claim, st.ground_truth, st.model_name)

\* the client as get_instructor_client returned it
AsConstructed(provider) ==
    AfterConstruction(GetInstructorClient(provider, NoModel, NoKey, FullEnv)).client

AloneOrTogether(st) ==
    LET alone == PathAlone(Started(st), AsConstructed(llm.client.provider))
    IN /\ st \in alone
       /\ Terminal(st) =>
             \A other \in alone : Terminal(other) =>
                 other.result = st.result /\ other.error = st.error

====
